---- MODULE Spec2Model ----
(***************************************************************************)
(* Model of the Tauri shell of hush-web-client: the FCM command facade of  *)
(* src-tauri/src/fcm.rs and the tray-icon handler of src-tauri/src/lib.rs. *)
(*                                                                         *)
(* A Rust String that goes through a conversion (the device name) is a     *)
(* sequence of Unicode scalar values; an OsString is a sequence of bytes.  *)
(* The other strings are literals the code only hands out, kept as TLA+    *)
(* strings.  Option<T> is None or Some(x).                                 *)
(***************************************************************************)
EXTENDS Integers, Sequences, FiniteSets, TLC

VARIABLES
    target_os,   \* the build target the cfg attributes select on (fixed per build)
    hostname,    \* what hostname::get() yields now: [ok |-> FALSE] or [ok |-> TRUE, name |-> bytes]
    pending,     \* the native layer's stored pending feed id (SharedPreferences): None or Some(feed)
    lastOp,      \* the facade command whose return value is being handed to the UI, or NoOp
    ret,         \* that return value
    first,       \* op -> the value op returned the first time it was called in this process
    main,        \* the webview window labelled "main": [exists, visible, focused]
    trayEvent,   \* the tray event the handler was last run for, or NoEvent
    trayCalls    \* the window calls that run of the handler made, in order, with their outcome

vars == <<target_os, hostname, pending, lastOp, ret, first, main, trayEvent, trayCalls>>

facadeVars == <<target_os, hostname, pending, lastOp, ret>>
trayVars == <<main, trayEvent, trayCalls>>

----------------------------------------------------------------------------
(* Bounds *)

MaxHostLen == 2
MaxFeeds == 2

(* 'h', and the two bytes of U+00E9: a lead byte and a continuation byte,  *)
(* each of which is invalid UTF-8 on its own.                              *)
HostBytes == {104, 195, 169}

RECURSIVE SeqsUpTo(_, _)
SeqsUpTo(S, n) ==
    IF n = 0 THEN {<<>>}
    ELSE LET shorter == SeqsUpTo(S, n - 1)
         IN shorter \cup {Append(s, b) : s \in shorter, b \in S}

HostNames == SeqsUpTo(HostBytes, MaxHostLen)
Feeds == 1..MaxFeeds

----------------------------------------------------------------------------
(* Values *)

None == [some |-> FALSE]
Some(x) == [some |-> TRUE, value |-> x]

TargetOS == {"android", "ios", "linux", "windows", "macos"}

IsMobile == target_os \in {"android", "ios"}
IsDesktop == ~IsMobile

Ops == {"get_platform", "get_device_name", "has_notification_permission",
        "get_fcm_token", "is_push_supported", "get_pending_navigation",
        "clear_pending_navigation"}
NoOp == "none"
NoRet == "none"

Ok == [tag |-> "Ok"]
Err(msg) == [tag |-> "Err", message |-> msg]

FcmTokenResult(t, e) == [token |-> t, error |-> e]
PermissionResult(g, c) == [granted |-> g, can_request |-> c]
PendingNavigationResult(f) == [feed_id |-> f]

(* "Desktop", "Android Device", "iOS Device" as scalar values *)
StrDesktop == <<68, 101, 115, 107, 116, 111, 112>>
StrAndroidDevice == <<65, 110, 100, 114, 111, 105, 100, 32, 68, 101, 118, 105, 99, 101>>
StrIosDevice == <<105, 79, 83, 32, 68, 101, 118, 105, 99, 101>>

----------------------------------------------------------------------------
(* OsStr::to_string_lossy: UTF-8 decoding in which every maximal invalid   *)
(* byte sequence becomes one U+FFFD.                                       *)

REPLACEMENT_CHARACTER == 65533

IsCont(b) == b \in 128..191

(* bytes of the encoded scalar a lead byte announces; 0: not a lead byte *)
Utf8Width(b) ==
    IF b < 128 THEN 1
    ELSE IF b \in 194..223 THEN 2
    ELSE IF b \in 224..239 THEN 3
    ELSE IF b \in 240..244 THEN 4
    ELSE 0

SecondOk(b, s) ==
    CASE b = 224 -> s \in 160..191
      [] b = 237 -> s \in 128..159
      [] b = 240 -> s \in 144..191
      [] b = 244 -> s \in 128..143
      [] OTHER -> IsCont(s)

(* how many bytes at the head of bs (not empty) are a prefix of a valid encoding *)
GoodPrefix(bs) ==
    LET w == Utf8Width(bs[1])
        k2 == IF w >= 2 /\ Len(bs) >= 2 /\ SecondOk(bs[1], bs[2]) THEN 2 ELSE 1
        k3 == IF k2 = 2 /\ w >= 3 /\ Len(bs) >= 3 /\ IsCont(bs[3]) THEN 3 ELSE k2
        k4 == IF k3 = 3 /\ w = 4 /\ Len(bs) >= 4 /\ IsCont(bs[4]) THEN 4 ELSE k3
    IN IF w = 0 THEN 0 ELSE k4

CodePoint(bs, w) ==
    CASE w = 1 -> bs[1]
      [] w = 2 -> (bs[1] - 192) * 64 + (bs[2] - 128)
      [] w = 3 -> (bs[1] - 224) * 4096 + (bs[2] - 128) * 64 + (bs[3] - 128)
      [] w = 4 -> (bs[1] - 240) * 262144 + (bs[2] - 128) * 4096
                  + (bs[3] - 128) * 64 + (bs[4] - 128)

RECURSIVE to_string_lossy(_)
to_string_lossy(bs) ==
    IF bs = <<>> THEN <<>>
    ELSE LET w == Utf8Width(bs[1])
             n == GoodPrefix(bs)
             skip == IF n = 0 THEN 1 ELSE n
         IN IF w > 0 /\ n = w
            THEN <<CodePoint(bs, w)>> \o to_string_lossy(SubSeq(bs, w + 1, Len(bs)))
            ELSE <<REPLACEMENT_CHARACTER>> \o to_string_lossy(SubSeq(bs, skip + 1, Len(bs)))

----------------------------------------------------------------------------
(* The facade commands: what each returns, by the cfg branch compiled in *)

get_platform_NoIos ==
    IF target_os = "android" THEN "android" ELSE "desktop"

get_platform ==
    CASE target_os = "android" -> "android"
      [] target_os = "ios" -> "ios"
      [] OTHER -> "desktop"

get_device_name_OrDefault ==
    CASE target_os = "android" -> StrAndroidDevice
      [] target_os = "ios" -> StrIosDevice
      [] OTHER -> IF hostname.ok THEN to_string_lossy(hostname.name) ELSE <<>>

get_device_name ==
    CASE target_os = "android" -> StrAndroidDevice
      [] target_os = "ios" -> StrIosDevice
      [] OTHER -> IF hostname.ok THEN to_string_lossy(hostname.name) ELSE StrDesktop

has_notification_permission_AlwaysRequest == PermissionResult(TRUE, TRUE)

has_notification_permission ==
    CASE target_os = "android" -> PermissionResult(TRUE, TRUE)
      [] target_os = "ios" -> PermissionResult(TRUE, TRUE)
      [] OTHER -> PermissionResult(TRUE, FALSE)

get_fcm_token_Stored ==
    CASE target_os = "android" -> FcmTokenResult(Some("fcm-token"), None)
      [] target_os = "ios" ->
            FcmTokenResult(None, Some("iOS push notifications not yet implemented"))
      [] OTHER ->
            FcmTokenResult(None, Some("Push notifications not available on desktop"))

get_fcm_token ==
    CASE target_os = "android" ->
            FcmTokenResult(None, Some("Use native bridge to retrieve FCM token"))
      [] target_os = "ios" ->
            FcmTokenResult(None, Some("iOS push notifications not yet implemented"))
      [] OTHER ->
            FcmTokenResult(None, Some("Push notifications not available on desktop"))

is_push_supported_AndroidOnly == target_os = "android"

is_push_supported == target_os \in {"android", "ios"}

get_pending_navigation_Stored ==
    CASE target_os = "android" -> PendingNavigationResult(pending)
      [] target_os = "ios" -> PendingNavigationResult(None)
      [] OTHER -> PendingNavigationResult(None)

get_pending_navigation ==
    CASE target_os = "android" -> PendingNavigationResult(None)
      [] target_os = "ios" -> PendingNavigationResult(None)
      [] OTHER -> PendingNavigationResult(None)

clear_pending_navigation_ErrIfNone ==
    IF pending = None THEN Err("No pending navigation") ELSE Ok

clear_pending_navigation ==
    CASE target_os = "android" -> Ok
      [] target_os = "ios" -> Ok
      [] OTHER -> Ok

(* A #[tauri::command] call: the UI receives the value; nothing else is written *)
Invoke(op, value) ==
    /\ lastOp' = op
    /\ ret' = value
    /\ UNCHANGED <<target_os, hostname, pending, trayVars>>

GetPlatform == Invoke("get_platform", get_platform)
GetDeviceName == Invoke("get_device_name", get_device_name)
HasNotificationPermission == Invoke("has_notification_permission", has_notification_permission)
GetFcmToken == Invoke("get_fcm_token", get_fcm_token)
IsPushSupported == Invoke("is_push_supported", is_push_supported)
GetPendingNavigation == Invoke("get_pending_navigation", get_pending_navigation)
ClearPendingNavigation == Invoke("clear_pending_navigation", clear_pending_navigation)

----------------------------------------------------------------------------
(* What the facade only interfaces with: the native layer and the host *)

(* MainActivity stores the feedId of a tapped push notification *)
NotificationTap(f) ==
    /\ IsMobile
    /\ pending' = Some(f)
    /\ lastOp' = NoOp
    /\ ret' = NoRet
    /\ UNCHANGED <<target_os, hostname, first, trayVars>>

(* FcmService.clearPendingNavigation, which the UI reaches over the Kotlin bridge *)
NativeClearPending ==
    /\ IsMobile
    /\ pending # None
    /\ pending' = None
    /\ lastOp' = NoOp
    /\ ret' = NoRet
    /\ UNCHANGED <<target_os, hostname, first, trayVars>>

(* the outcome of the next hostname::get() changes: it starts failing, or the name is set *)
HostnameChange(h) ==
    /\ h # hostname
    /\ hostname' = h
    /\ lastOp' = NoOp
    /\ ret' = NoRet
    /\ UNCHANGED <<target_os, pending, first, trayVars>>

HostnameOutcomes == {[ok |-> FALSE]} \cup {[ok |-> TRUE, name |-> n] : n \in HostNames}

----------------------------------------------------------------------------
(* The tray icon, built in setup under #[cfg(desktop)] *)

Buttons == {"Left", "Right", "Middle"}
ButtonStates == {"Up", "Down"}

(* tauri::tray::TrayIconEvent, without the id, position and rect the handler ignores *)
TrayEvents ==
    {[kind |-> "Click", button |-> b, button_state |-> s] : b \in Buttons, s \in ButtonStates}
    \cup {[kind |-> "DoubleClick", button |-> b] : b \in Buttons}
    \cup {[kind |-> k] : k \in {"Enter", "Move", "Leave"}}

NoEvent == [kind |-> "none"]

IsLeftUp(ev) == ev.kind = "Click" /\ ev.button = "Left" /\ ev.button_state = "Up"

NoWindow == [exists |-> FALSE, visible |-> FALSE, focused |-> FALSE]

WindowCall(name, ok) == [call |-> name, ok |-> ok]

(* window.show() / window.set_focus() on w: a call that fails changes nothing *)
Show(w, ok) == IF ok THEN [w EXCEPT !.visible = TRUE] ELSE w
SetFocus(w, ok) == IF ok THEN [w EXCEPT !.focused = TRUE] ELSE w

(* as if written window.show()?; window.set_focus()?: a failed show ends the handler *)
OnTrayIconEvent_StopOnError(ev) ==
    /\ IsDesktop
    /\ trayEvent' = ev
    /\ IF IsLeftUp(ev) /\ main.exists
       THEN \E showOk, focusOk \in BOOLEAN :
               IF showOk
               THEN /\ main' = SetFocus(Show(main, showOk), focusOk)
                    /\ trayCalls' = <<WindowCall("show", showOk), WindowCall("set_focus", focusOk)>>
               ELSE /\ main' = main
                    /\ trayCalls' = <<WindowCall("show", showOk)>>
       ELSE /\ main' = main
            /\ trayCalls' = <<>>
    /\ UNCHANGED <<facadeVars, first>>

(* the closure given to on_tray_icon_event *)
OnTrayIconEvent(ev) ==
    /\ IsDesktop
    /\ trayEvent' = ev
    /\ IF IsLeftUp(ev) /\ main.exists
       THEN \E showOk, focusOk \in BOOLEAN :
               /\ main' = SetFocus(Show(main, showOk), focusOk)
               /\ trayCalls' = <<WindowCall("show", showOk), WindowCall("set_focus", focusOk)>>
       ELSE /\ main' = main
            /\ trayCalls' = <<>>
    /\ UNCHANGED <<facadeVars, first>>

(* the user or the window manager acts on the window *)
WindowHide ==
    /\ main.exists /\ main.visible
    /\ main' = [main EXCEPT !.visible = FALSE, !.focused = FALSE]
    /\ trayEvent' = NoEvent
    /\ trayCalls' = <<>>
    /\ UNCHANGED <<facadeVars, first>>

WindowBlur ==
    /\ main.exists /\ main.focused
    /\ main' = [main EXCEPT !.focused = FALSE]
    /\ trayEvent' = NoEvent
    /\ trayCalls' = <<>>
    /\ UNCHANGED <<facadeVars, first>>

WindowClose ==
    /\ main.exists
    /\ main' = NoWindow
    /\ trayEvent' = NoEvent
    /\ trayCalls' = <<>>
    /\ UNCHANGED <<facadeVars, first>>

----------------------------------------------------------------------------
(* Specifications *)

Init ==
    /\ target_os \in TargetOS
    /\ hostname \in HostnameOutcomes
    /\ pending = None
    /\ lastOp = NoOp
    /\ ret = NoRet
    /\ first = [o \in {} |-> NoRet]
    /\ main \in {NoWindow, [exists |-> TRUE, visible |-> TRUE, focused |-> TRUE]}
    /\ trayEvent = NoEvent
    /\ trayCalls = <<>>

(* The facade with the native layer and the host around it *)
Next ==
    \/ GetPlatform /\ UNCHANGED first
    \/ GetDeviceName /\ UNCHANGED first
    \/ HasNotificationPermission /\ UNCHANGED first
    \/ GetFcmToken /\ UNCHANGED first
    \/ IsPushSupported /\ UNCHANGED first
    \/ GetPendingNavigation /\ UNCHANGED first
    \/ ClearPendingNavigation /\ UNCHANGED first
    \/ \E f \in Feeds : NotificationTap(f)
    \/ NativeClearPending
    \/ \E h \in HostnameOutcomes : HostnameChange(h)

Spec == Init /\ [][Next]_vars

(* Sequences of commands in one process, the hostname lookup's outcome fixed, *)
(* each command's first return value remembered                              *)
RecordFirst ==
    first' = IF lastOp' \in DOMAIN first THEN first ELSE first @@ (lastOp' :> ret')

SeqNext ==
    \/ GetPlatform /\ RecordFirst
    \/ GetDeviceName /\ RecordFirst
    \/ HasNotificationPermission /\ RecordFirst
    \/ GetFcmToken /\ RecordFirst
    \/ IsPushSupported /\ RecordFirst
    \/ GetPendingNavigation /\ RecordFirst
    \/ ClearPendingNavigation /\ RecordFirst
    \/ \E f \in Feeds : NotificationTap(f)
    \/ NativeClearPending

SeqSpec == Init /\ [][SeqNext]_vars

(* The tray icon and the main window *)
TrayNext ==
    \/ \E ev \in TrayEvents : OnTrayIconEvent(ev)
    \/ WindowHide
    \/ WindowBlur
    \/ WindowClose

TraySpec == Init /\ [][TrayNext]_vars

----------------------------------------------------------------------------
(* Claims *)

Range(f) == {f[i] : i \in DOMAIN f}

(* the UTF-8 encoding of a sequence of scalar values *)
RECURSIVE Utf8Encode(_)
Utf8Encode(cs) ==
    IF cs = <<>> THEN <<>>
    ELSE LET c == cs[1]
             head == IF c < 128 THEN <<c>>
                     ELSE IF c < 2048 THEN <<192 + (c \div 64), 128 + (c % 64)>>
                     ELSE IF c < 65536
                          THEN <<224 + (c \div 4096), 128 + ((c \div 64) % 64), 128 + (c % 64)>>
                          ELSE <<240 + (c \div 262144), 128 + ((c \div 4096) % 64),
                                 128 + ((c \div 64) % 64), 128 + (c % 64)>>
         IN head \o Utf8Encode(Tail(cs))

(* bs is well-formed UTF-8 *)
RECURSIVE Utf8Valid(_)
Utf8Valid(bs) ==
    \/ bs = <<>>
    \/ /\ Utf8Width(bs[1]) > 0
       /\ GoodPrefix(bs) = Utf8Width(bs[1])
       /\ Utf8Valid(SubSeq(bs, Utf8Width(bs[1]) + 1, Len(bs)))

(* C1: get_platform returns one of "android", "ios", "desktop", the one the build *)
(* target fixes ("desktop" on every target that is neither Android nor iOS), and  *)
(* every call returns what the first call of the process returned.                *)
C1_PlatformFixedByTarget ==
    lastOp = "get_platform" =>
        /\ ret \in {"android", "ios", "desktop"}
        /\ ret = (IF target_os = "android" THEN "android"
                  ELSE IF target_os = "ios" THEN "ios" ELSE "desktop")
        /\ ret = first["get_platform"]

C1_Witness ==
    /\ lastOp = "get_platform"
    /\ ret = "ios"
    /\ pending # None
    /\ "clear_pending_navigation" \in DOMAIN first

C4_PushSupportedIffNotDesktop ==
    /\ is_push_supported = (get_platform # "desktop")
    /\ lastOp = "is_push_supported" =>
          /\ ret = (get_platform # "desktop")
          /\ ret = (target_os \in {"android", "ios"})

C4_Witness ==
    /\ lastOp = "is_push_supported"
    /\ target_os = "ios"
    /\ ret = TRUE

C6_ClearAlwaysOk ==
    [][lastOp' = "clear_pending_navigation" =>
          /\ ret' = Ok
          /\ UNCHANGED <<target_os, hostname, pending, trayVars>>
          /\ (lastOp = "clear_pending_navigation" => UNCHANGED vars)]_vars

C6_Witness ==
    /\ lastOp = "clear_pending_navigation"
    /\ pending # None
    /\ ret = Ok

C8_TappedFeedReturned ==
    (lastOp = "get_pending_navigation" /\ target_os = "android" /\ pending # None) =>
        ret.feed_id = pending

C10_LeftUpShowsAndFocuses ==
    [][trayEvent' # NoEvent =>
          IF IsLeftUp(trayEvent') /\ main.exists
          THEN /\ Len(trayCalls') = 2
               /\ trayCalls'[1].call = "show"
               /\ trayCalls'[2].call = "set_focus"
               /\ main'.exists
               /\ main'.visible = (main.visible \/ trayCalls'[1].ok)
               /\ main'.focused = (main.focused \/ trayCalls'[2].ok)
          ELSE /\ trayCalls' = <<>>
               /\ main' = main]_vars

C10_Witness ==
    /\ IsLeftUp(trayEvent)
    /\ trayCalls = <<WindowCall("show", FALSE), WindowCall("set_focus", TRUE)>>
    /\ ~main.visible
    /\ main.focused

====
